---- MODULE Spec2Model ----
(***************************************************************************)
(* Data-Lineage-Mapper: the AI gateway (ai_logic.py), the click handler   *)
(* and output section of main.py, the graph builder                       *)
(* (lineage_visualizer.py) and the download section                       *)
(* (additional_features.py).                                              *)
(*                                                                         *)
(* Seven specifications share the variables: Spec (the script runs of the *)
(* app), SpecStartup (a script run from the imports on, with the          *)
(* dark-mode toggle), SpecSelect, SpecGateway and SpecInfer (the gateway  *)
(* functions and ask_gemini_infer_structured_schema), SpecThreads (two    *)
(* session threads inside get_gemini_model) and SpecGraph                 *)
(* (render_lineage_graph).                                                *)
(*                                                                         *)
(* Text is a sequence of characters; a character is a one-element TLA+    *)
(* string, and a fixed fragment of a message (a literal of the source) is *)
(* a single element too.  A Python/JSON value is a record of one shape    *)
(* (JV) so that any two values can be compared.                           *)
(***************************************************************************)
EXTENDS Integers, Sequences, FiniteSets, TLC

\* ------------------------------------------------------------------ bounds
\* longest `nodes` / `edges` array of a structured response (SpecGraph)
MaxEntries == 2
\* longest provider model list (SpecSelect)
MaxModels == 2
\* longest text typed into the code editor (Spec)
MaxInputLen == 2

\* ------------------------------------------------------------- characters
QUOTE == "\""
BSLASH == "\\"
NL == "\n"
SP == " "
\* the sentinel that prefixes every error string of ai_logic.py
CrossMark == "<U+274C>"
Whitespace == {SP, NL}
DigitChars == <<"0", "1", "2", "3", "4", "5", "6", "7", "8", "9">>

\* ---------------------------------------------------------- Python values
JV(k, s, n, items, keys) ==
    [k |-> k, s |-> s, n |-> n, items |-> items, keys |-> keys]
\* Python None / JSON null
None == JV("null", <<>>, 0, <<>>, <<>>)
JStr(s) == JV("str", s, 0, <<>>, <<>>)
JNum(n) == JV("num", <<>>, n, <<>>, <<>>)
JArr(items) == JV("arr", <<>>, 0, items, <<>>)
\* a dict: keys in insertion order, items[i] the value of keys[i]
JObj(keys, items) == JV("obj", <<>>, 0, items, keys)
EmptyDict == JObj(<<>>, <<>>)

\* bool(v)
Truthy(v) ==
    CASE v.k = "null" -> FALSE
      [] v.k = "str" -> v.s # <<>>
      [] v.k = "num" -> v.n # 0
      [] v.k = "arr" -> v.items # <<>>
      [] v.k = "obj" -> v.keys # <<>>

IsDict(v) == v.k = "obj"
HasKey(d, key) == \E i \in 1..Len(d.keys) : d.keys[i] = key
\* d.get(key, default)
DictGetDefault(d, key, default) ==
    IF HasKey(d, key)
    THEN d.items[CHOOSE i \in 1..Len(d.keys) : d.keys[i] = key]
    ELSE default
\* d.get(key)
DictGet(d, key) == DictGetDefault(d, key, None)
\* d[key] = v
DictSet(d, key, v) ==
    IF HasKey(d, key)
    THEN LET i == CHOOSE j \in 1..Len(d.keys) : d.keys[j] = key
         IN  JObj(d.keys, [d.items EXCEPT ![i] = v])
    ELSE JObj(Append(d.keys, key), Append(d.items, v))

\* str(v) as an f-string interpolates it; containers are not spelled out
Format(v) ==
    CASE v.k = "str" -> v.s
      [] v.k = "num" -> <<DigitChars[v.n + 1]>>
      [] v.k = "null" -> <<"None">>
      [] OTHER -> <<"<repr>">>

\* ------------------------------------------------------------ json.dumps
RECURSIVE Spaces(_)
Spaces(n) == IF n = 0 THEN <<>> ELSE <<SP>> \o Spaces(n - 1)
NewlineIndent(depth) == <<NL>> \o Spaces(2 * depth)

\* the body of a JSON string literal (ensure_ascii escapes the sentinel)
RECURSIVE Escape(_)
\* EscapeChar without the escape of the double quote
MutEscapeCharQuoteAsIs(c) ==
    CASE c = BSLASH -> <<BSLASH, BSLASH>>
      [] c = NL -> <<BSLASH, "n">>
      [] c = CrossMark -> <<BSLASH, "u", "2", "7", "4", "c">>
      [] OTHER -> <<c>>
EscapeChar(c) ==
    CASE c = QUOTE -> <<BSLASH, QUOTE>>
      [] c = BSLASH -> <<BSLASH, BSLASH>>
      [] c = NL -> <<BSLASH, "n">>
      [] c = CrossMark -> <<BSLASH, "u", "2", "7", "4", "c">>
      [] OTHER -> <<c>>
Escape(s) ==
    IF Len(s) = 0 THEN <<>>
    ELSE IF Len(s) = 1 THEN EscapeChar(s[1])
    ELSE LET half == Len(s) \div 2
         IN  Escape(SubSeq(s, 1, half)) \o Escape(SubSeq(s, half + 1, Len(s)))

\* json.dumps(s) of a str
JsonDumpsStr(s) == <<QUOTE>> \o Escape(s) \o <<QUOTE>>

RECURSIVE JsonDumpsAt(_, _), DumpItems(_, _, _), DumpMembers(_, _, _)
DumpItems(items, i, depth) ==
    IF i > Len(items) THEN <<>>
    ELSE JsonDumpsAt(items[i], depth)
         \o (IF i < Len(items) THEN <<",">> \o NewlineIndent(depth) ELSE <<>>)
         \o DumpItems(items, i + 1, depth)
DumpMembers(d, i, depth) ==
    IF i > Len(d.keys) THEN <<>>
    ELSE JsonDumpsStr(d.keys[i]) \o <<":", SP>> \o JsonDumpsAt(d.items[i], depth)
         \o (IF i < Len(d.keys) THEN <<",">> \o NewlineIndent(depth) ELSE <<>>)
         \o DumpMembers(d, i + 1, depth)
JsonDumpsAt(v, depth) ==
    CASE v.k = "null" -> <<"n", "u", "l", "l">>
      [] v.k = "str" -> JsonDumpsStr(v.s)
      [] v.k = "num" -> <<DigitChars[v.n + 1]>>
      [] v.k = "arr" ->
           IF v.items = <<>> THEN <<"[", "]">>
           ELSE <<"[">> \o NewlineIndent(depth + 1)
                \o DumpItems(v.items, 1, depth + 1)
                \o NewlineIndent(depth) \o <<"]">>
      [] v.k = "obj" ->
           IF v.keys = <<>> THEN <<"{", "}">>
           ELSE <<"{">> \o NewlineIndent(depth + 1)
                \o DumpMembers(v, 1, depth + 1)
                \o NewlineIndent(depth) \o <<"}">>
\* json.dumps(v, indent=2)
JsonDumps(v) == JsonDumpsAt(v, 0)

\* ------------------------------------------------------------ json.loads
\* a parse result: ok, the value, and the index after it
ParseFail == [ok |-> FALSE, v |-> None, i |-> 0]
ParseOk(v, i) == [ok |-> TRUE, v |-> v, i |-> i]

RECURSIVE SkipWs(_, _)
SkipWs(t, i) ==
    IF i <= Len(t) /\ t[i] \in Whitespace THEN SkipWs(t, i + 1) ELSE i

IsDigit(c) == \E n \in 1..10 : DigitChars[n] = c
DigitValue(c) == (CHOOSE n \in 1..10 : DigitChars[n] = c) - 1

\* A string literal whose body starts at index i of t (after the opening
\* quote).  A backslash or quote is escaped when an odd number of backslashes
\* of the body precedes it.
RECURSIVE BackslashesBefore(_, _, _)
BackslashesBefore(t, i, p) ==
    IF p - 1 < i \/ t[p - 1] # BSLASH THEN 0
    ELSE 1 + BackslashesBefore(t, i, p - 1)
Unescaped(t, i, p) == BackslashesBefore(t, i, p) % 2 = 0
ParseString(t, i) ==
    LET Closes(p) == t[p] = QUOTE /\ Unescaped(t, i, p)
    IN  IF ~\E p \in i..Len(t) : Closes(p) THEN ParseFail
        ELSE
        LET close == CHOOSE p \in i..Len(t) :
                        Closes(p) /\ \A q \in i..(p - 1) : ~Closes(q)
            EscapeAt(p) == p >= i /\ t[p] = BSLASH /\ Unescaped(t, i, p)
            ValidEscape(p) ==
                \/ t[p + 1] \in {QUOTE, BSLASH, "n"}
                \/ /\ t[p + 1] = "u"
                   /\ p + 5 < close
                   /\ SubSeq(t, p + 2, p + 5) = <<"2", "7", "4", "c">>
            \* p belongs to an escape sequence that started before it
            Continues(p) ==
                \/ EscapeAt(p - 1)
                \/ \E q \in (p - 5)..(p - 2) : EscapeAt(q) /\ t[q + 1] = "u"
            Decode(p) ==
                IF ~EscapeAt(p) THEN t[p]
                ELSE CASE t[p + 1] = QUOTE -> QUOTE
                       [] t[p + 1] = BSLASH -> BSLASH
                       [] t[p + 1] = "n" -> NL
                       [] OTHER -> CrossMark
            starts == SelectSeq([k \in 1..(close - i) |-> i + k - 1],
                                LAMBDA p : ~Continues(p))
            valid == \A p \in i..(close - 1) :
                        /\ t[p] # NL
                        /\ EscapeAt(p) => ValidEscape(p)
        IN  IF valid
            THEN ParseOk(JStr([k \in 1..Len(starts) |-> Decode(starts[k])]),
                         close + 1)
            ELSE ParseFail

RECURSIVE ParseValue(_, _), ParseItems(_, _, _), ParseMembers(_, _, _)
\* after "[" and at least one item: item ("," item)* "]"
ParseItems(t, i, acc) ==
    LET r == ParseValue(t, SkipWs(t, i))
        j == SkipWs(t, r.i)
    IN  IF ~r.ok \/ j > Len(t) THEN ParseFail
        ELSE IF t[j] = "," THEN ParseItems(t, j + 1, Append(acc, r.v))
        ELSE IF t[j] = "]" THEN ParseOk(JArr(Append(acc, r.v)), j + 1)
        ELSE ParseFail
\* after "{": string ":" value ("," string ":" value)* "}"
ParseMembers(t, i, d) ==
    LET a == SkipWs(t, i)
        key == IF a <= Len(t) /\ t[a] = QUOTE THEN ParseString(t, a + 1)
               ELSE ParseFail
        c == SkipWs(t, key.i)
        r == IF key.ok /\ c <= Len(t) /\ t[c] = ":"
             THEN ParseValue(t, SkipWs(t, c + 1)) ELSE ParseFail
        j == SkipWs(t, r.i)
    IN  IF ~r.ok \/ j > Len(t) THEN ParseFail
        ELSE IF t[j] = "," THEN ParseMembers(t, j + 1, DictSet(d, key.v.s, r.v))
        ELSE IF t[j] = "}" THEN ParseOk(DictSet(d, key.v.s, r.v), j + 1)
        ELSE ParseFail
ParseValue(t, i) ==
    IF i > Len(t) THEN ParseFail
    ELSE IF t[i] = QUOTE THEN ParseString(t, i + 1)
    ELSE IF IsDigit(t[i]) THEN ParseOk(JNum(DigitValue(t[i])), i + 1)
    ELSE IF i + 3 <= Len(t) /\ SubSeq(t, i, i + 3) = <<"n", "u", "l", "l">>
         THEN ParseOk(None, i + 4)
    ELSE IF t[i] = "[" THEN
        LET j == SkipWs(t, i + 1)
        IN  IF j <= Len(t) /\ t[j] = "]" THEN ParseOk(JArr(<<>>), j + 1)
            ELSE ParseItems(t, i + 1, <<>>)
    ELSE IF t[i] = "{" THEN
        LET j == SkipWs(t, i + 1)
        IN  IF j <= Len(t) /\ t[j] = "}" THEN ParseOk(EmptyDict, j + 1)
            ELSE ParseMembers(t, i + 1, EmptyDict)
    ELSE ParseFail
\* json.loads(text): ok is FALSE where json.loads raises JSONDecodeError
JsonLoads(t) ==
    LET r == ParseValue(t, SkipWs(t, 1))
    IN  IF r.ok /\ SkipWs(t, r.i) = Len(t) + 1 THEN r ELSE ParseFail


\* ================================================================ ai_logic
\* Strip removing nothing
MutStripNothing(s) == s
\* s.strip()
Strip(s) ==
    LET keep == {i \in 1..Len(s) : s[i] \notin Whitespace}
    IN  IF keep = {} THEN <<>>
        ELSE SubSeq(s, CHOOSE i \in keep : \A j \in keep : i <= j,
                       CHOOSE i \in keep : \A j \in keep : i >= j)
StartsWith(s, c) == Len(s) > 0 /\ s[1] = c
\* Take without the truncation
MutTakeAll(s, n) == s
\* s[:n]
Take(s, n) == SubSeq(s, 1, IF Len(s) < n THEN Len(s) ELSE n)

\* _gemini_model_instance = None
NoHandle == "None"
GenerateContent == "generateContent"
preferred_order ==
    <<"models/gemini-1.5-flash", "models/gemini-pro", "models/gemini-1.5-pro">>
\* json_text[:200]
RawExcerptLen == 200

\* available_models: the names of the listed models that support generateContent
AvailableModels(listing) ==
    LET capable == SelectSeq(listing, LAMBDA m : GenerateContent \in m.methods)
    IN  [i \in 1..Len(capable) |-> capable[i].name]
InSeq(x, s) == \E i \in 1..Len(s) : s[i] = x
\* ChooseModel without the preference order
MutChooseFirstListed(available_models) ==
    IF available_models # <<>> THEN available_models[1] ELSE ""
\* chosen_model_name ("" stands for None)
ChooseModel(available_models) ==
    LET hits == {i \in 1..Len(preferred_order) :
                    InSeq(preferred_order[i], available_models)}
    IN  IF hits # {}
        THEN preferred_order[CHOOSE i \in hits : \A j \in hits : i <= j]
        ELSE IF available_models # <<>> THEN available_models[1]
        ELSE ""

\* What a call of get_gemini_model does.  env is the provider at that moment:
\* listRaises (genai.list_models raises), listing (the models it yields) and
\* ctorRaises (genai.GenerativeModel raises).
ModelResult(before, inst, raised, msg, listed, constructed) ==
    [before |-> before, inst |-> inst, raised |-> raised, msg |-> msg,
     listed |-> listed, constructed |-> constructed]
\* GetGeminiModel without the early return of lines 32-33
MutGetGeminiModelAlwaysInit(inst, env) ==
    LET chosen == ChooseModel(AvailableModels(env.listing))
    IN  IF chosen # "" /\ ~env.listRaises /\ ~env.ctorRaises
        THEN ModelResult(inst, chosen, FALSE, <<>>, TRUE, TRUE)
        ELSE ModelResult(inst, inst, TRUE, <<"No suitable Gemini model found">>,
                         TRUE, FALSE)
GetGeminiModel(inst, env) ==
    IF inst # NoHandle THEN ModelResult(inst, inst, FALSE, <<>>, FALSE, FALSE)
    ELSE IF env.listRaises
         THEN ModelResult(inst, inst, TRUE, <<"<list_models error>">>, TRUE, FALSE)
    ELSE LET chosen == ChooseModel(AvailableModels(env.listing))
         IN  IF chosen # ""
             THEN IF env.ctorRaises
                  THEN ModelResult(inst, inst, TRUE,
                         <<"Failed to initialize Gemini model '", chosen, "'">>,
                         TRUE, TRUE)
                  ELSE ModelResult(inst, chosen, FALSE, <<>>, TRUE, TRUE)
             ELSE ModelResult(inst, inst, TRUE,
                              <<"No suitable Gemini model found">>, TRUE, FALSE)

\* What model_instance.generate_content does, gen:
\*   kind "response": a response object; hasParts says whether candidates[0]
\*        .content.parts[0] exists, text is its text
\*   kind "blocked":  raises BlockedPromptException; hasAttr says whether the
\*        exception object has the attribute chain e.response.prompt_feedback
\*        .block_reason.name (the exception class belongs to the provider
\*        library, which this repository does not define)
\*   kind "error":    raises any other Exception
Gen(kind, hasParts, text, hasAttr) ==
    [kind |-> kind, hasParts |-> hasParts, text |-> text, hasAttr |-> hasAttr]
GenText(text) == Gen("response", TRUE, text, FALSE)
GenEmpty == Gen("response", FALSE, <<>>, FALSE)
GenBlocked(hasAttr) == Gen("blocked", FALSE, <<>>, hasAttr)
GenError == Gen("error", FALSE, <<>>, FALSE)

KeyError == <<"error">>
\* ErrorDict without the message
MutErrorDictNoMessage(msg) == JObj(<<KeyError>>, <<JStr(<<>>)>>)
\* {"error": msg}
ErrorDict(msg) == JObj(<<KeyError>>, <<JStr(msg)>>)

\* The outcome of one gateway call: its arguments and the provider's answer
\* (args), the handle before and after, whether the call raised, the value
\* returned (text for ask_gemini_text, value for ask_gemini_structured), and
\* which provider calls it made.
Args(prompt, response_schema, gen) ==
    [prompt |-> prompt, schema |-> response_schema, gen |-> gen]
NoArgs == Args(<<>>, None, GenError)
CallResult(fn, args, m, raised, text, value, generated) ==
    [fn |-> fn, args |-> args, before |-> m.before, inst |-> m.inst,
     raised |-> raised, text |-> text, value |-> value, listed |-> m.listed,
     constructed |-> m.constructed, initFailed |-> m.raised, msg |-> m.msg,
     generated |-> generated]
\* The same record for a direct call of get_gemini_model.
ModelCall(m) ==
    CallResult("get_gemini_model", NoArgs, m, m.raised, <<>>, None, FALSE)

AskGeminiText(inst, prompt, env, gen) ==
    LET m == GetGeminiModel(inst, env)
        args == Args(prompt, None, gen)
        Ret(text, generated) ==
            CallResult("text", args, m, FALSE, text, None, generated)
    IN  IF m.raised
        THEN Ret(<<CrossMark, " AI Service Error: ">> \o m.msg, FALSE)
        ELSE IF Strip(prompt) = <<>>
        THEN Ret(<<CrossMark, " Please provide a valid prompt">>, FALSE)
        ELSE CASE gen.kind = "response" ->
                    IF gen.hasParts THEN Ret(gen.text, TRUE)
                    ELSE Ret(<<CrossMark, " AI did not return a valid text response">>,
                             TRUE)
               [] gen.kind = "blocked" ->
                    IF gen.hasAttr
                    THEN Ret(<<CrossMark, " AI Blocked Content: ", "<block_reason>">>,
                             TRUE)
                    ELSE CallResult("text", args, m, TRUE, <<>>, None, TRUE)
               [] gen.kind = "error" ->
                    Ret(<<CrossMark, " Gemini Text API Call Failed: ", "<exception>">>,
                        TRUE)

AskGeminiStructured(inst, prompt, response_schema, env, gen) ==
    LET m == GetGeminiModel(inst, env)
        args == Args(prompt, response_schema, gen)
        Ret(value, generated) ==
            CallResult("structured", args, m, FALSE, <<>>, value, generated)
        Err(msg, generated) == Ret(ErrorDict(<<CrossMark>> \o msg), generated)
    IN  IF m.raised
        THEN Err(<<" AI Service Error (Structured): ">> \o m.msg, FALSE)
        ELSE IF Strip(prompt) = <<>>
        THEN Err(<<" Please provide a valid prompt">>, FALSE)
        ELSE IF ~Truthy(response_schema)
        THEN Err(<<" A response_schema is required">>, FALSE)
        ELSE CASE gen.kind = "response" ->
                    IF gen.hasParts
                    THEN LET parsed == JsonLoads(gen.text)
                         IN  IF parsed.ok THEN Ret(parsed.v, TRUE)
                             ELSE Err(<<" AI returned malformed JSON: ",
                                        "<JSONDecodeError>", ". Raw: ">>
                                      \o Take(gen.text, RawExcerptLen) \o <<"...">>,
                                      TRUE)
                    ELSE Err(<<" AI did not return a valid structured response">>,
                             TRUE)
               [] gen.kind = "blocked" ->
                    IF gen.hasAttr
                    THEN Err(<<" AI Blocked Content (Structured): ",
                               "<block_reason>">>, TRUE)
                    ELSE CallResult("structured", args, m, TRUE, <<>>, None, TRUE)
               [] gen.kind = "error" ->
                    Err(<<" Gemini Structured API Call Failed: ", "<exception>">>,
                        TRUE)

\* ====================================================== lineage_visualizer
KeyNodes == <<"nodes">>
KeyEdges == <<"edges">>
KeyId == <<"id">>
KeyLabel == <<"label">>
KeyGroup == <<"group">>
KeyTitle == <<"title">>
KeySource == <<"source">>
KeyTarget == <<"target">>
KeyConfidence == <<"confidence_score">>

\* A networkx DiGraph: nodes maps a node id to its attribute dict, edges maps
\* a (source, target) pair to its attribute dict.
NoGraph == [nodes |-> <<>>, edges |-> <<>>]
\* ids that can be keys of the graph (None is refused, containers are unhashable)
ValidNodeId(v) == v.k \in {"str", "num"}

\* G.add_node(node_id, **attrs): a node already there has its attributes updated
AddNode(G, node_id, attrs) ==
    [G EXCEPT !.nodes = (node_id :> attrs) @@ G.nodes]
\* AddEdge without the creation of missing endpoints
MutAddEdgeNoEndpoints(G, source, target, attrs) ==
    [G EXCEPT !.edges = (<<source, target>> :> attrs) @@ G.edges]
\* G.add_edge(source, target, **attrs): endpoints not yet in the graph are
\* added without attributes; an edge already there has its attributes updated
AddEdge(G, source, target, attrs) ==
    LET missing == {source, target} \ DOMAIN G.nodes
    IN  [nodes |-> [n \in missing |-> EmptyDict] @@ G.nodes,
         edges |-> (<<source, target>> :> attrs) @@ G.edges]

\* DefaultNodeTitle without the group
MutDefaultNodeTitleNoGroup(node_id, group) == JStr(<<"ID: ">> \o Format(node_id))
\* f"ID: {node_id}\\nType: {group}"
DefaultNodeTitle(node_id, group) ==
    JStr(<<"ID: ">> \o Format(node_id) \o <<BSLASH, "n", "Type: ">> \o Format(group))
NodeAttrs(node_data) ==
    LET node_id == DictGet(node_data, KeyId)
        label == DictGetDefault(node_data, KeyLabel, node_id)
        group == DictGetDefault(node_data, KeyGroup, JStr(<<"unknown">>))
        title_text == DictGetDefault(node_data, KeyTitle,
                                     DefaultNodeTitle(node_id, group))
    IN  JObj(<<KeyLabel, KeyGroup, KeyTitle>>,
             <<label, group, JStr(JsonDumps(title_text))>>)
EdgeAttrs(edge_data) ==
    LET label == DictGetDefault(edge_data, KeyLabel, JStr(<<>>))
        title_text == DictGetDefault(edge_data, KeyTitle, label)
    IN  JObj(<<KeyTitle, KeyLabel>>, <<JStr(JsonDumps(title_text)), label>>)

\* `for x in v`: the elements, and whether the loop can run at all
Iterable(v) == v.k \in {"arr", "str", "obj"}
Elements(v) ==
    CASE v.k = "arr" -> v.items
      [] v.k = "str" -> [i \in 1..Len(v.s) |-> JStr(<<v.s[i]>>)]
      [] v.k = "obj" -> [i \in 1..Len(v.keys) |-> JStr(v.keys[i])]
      [] OTHER -> <<>>

\* The two loops of lines 32-48 over the entries from index i on; ok is FALSE
\* where an exception leaves the loop.
RECURSIVE AddNodes(_, _, _), AddEdges(_, _, _)
AddNodes(G, entries, i) ==
    IF i > Len(entries) THEN [ok |-> TRUE, G |-> G]
    ELSE IF ~IsDict(entries[i]) \/ ~ValidNodeId(DictGet(entries[i], KeyId))
    THEN [ok |-> FALSE, G |-> G]
    ELSE AddNodes(AddNode(G, DictGet(entries[i], KeyId), NodeAttrs(entries[i])),
                  entries, i + 1)
AddEdges(G, entries, i) ==
    IF i > Len(entries) THEN [ok |-> TRUE, G |-> G]
    ELSE IF \/ ~IsDict(entries[i])
            \/ ~ValidNodeId(DictGet(entries[i], KeySource))
            \/ ~ValidNodeId(DictGet(entries[i], KeyTarget))
    THEN [ok |-> FALSE, G |-> G]
    ELSE AddEdges(AddEdge(G, DictGet(entries[i], KeySource),
                          DictGet(entries[i], KeyTarget), EdgeAttrs(entries[i])),
                  entries, i + 1)
BuildGraph(data) ==
    LET nodes == DictGetDefault(data, KeyNodes, JArr(<<>>))
        edges == DictGetDefault(data, KeyEdges, JArr(<<>>))
        afterNodes == IF Iterable(nodes) THEN AddNodes(NoGraph, Elements(nodes), 1)
                      ELSE [ok |-> FALSE, G |-> NoGraph]
    IN  IF ~afterNodes.ok THEN afterNodes
        ELSE IF Iterable(edges) THEN AddEdges(afterNodes.G, Elements(edges), 1)
        ELSE [ok |-> FALSE, G |-> afterNodes.G]

\* GraphDataMissing without the test of "nodes"
MutGraphDataMissingOnlyEmpty(data) == ~Truthy(data)
\* line 17: not structured_lineage_data or structured_lineage_data.get("nodes") is None
GraphDataMissing(data) == ~Truthy(data) \/ DictGet(data, KeyNodes) = None
\* GraphDataHasError with the guard of line 22 never taken
MutGraphDataHasErrorNever(data) == FALSE
\* line 22: structured_lineage_data.get("error")
GraphDataHasError(data) == Truthy(DictGet(data, KeyError))

\* What render_lineage_graph does.  lib is what the pyvis/tempfile/iframe
\* steps of lines 52-136 do: "ok", or the step that raises.
\*   outcome "raised":          an exception leaves the function
\*           "info_no_data":    st.info of line 18, return
\*           "error_shown":     st.error of line 23 (shownError), return
\*           "exception_shown": the except clause of lines 138-141
\*           "embedded":        the iframe of line 136
\*   tmp_file: the temporary HTML file of line 123 when the function
\*           returns: "none" (not created), "deleted" or "left"
View(outcome, built, G, shownError, tmp_file) ==
    [outcome |-> outcome, built |-> built, G |-> G, shownError |-> shownError,
     tmp_file |-> tmp_file]
NoView == View("not_called", FALSE, NoGraph, <<>>, "none")
\* from_nx: lines 52-120; save_graph: line 124; read: lines 127-128;
\* embed: lines 134-136
LibOutcomes == {"ok", "from_nx", "save_graph", "read", "embed"}
\* NamedTemporaryFile(delete=False) of line 123 creates the file; os.remove of
\* line 131 is the only statement that deletes it
TmpFileAfter(lib) ==
    CASE lib = "from_nx" -> "none"
      [] lib \in {"save_graph", "read"} -> "left"
      [] OTHER -> "deleted"
RenderLineageGraph(data, lib) ==
    IF Truthy(data) /\ ~IsDict(data) THEN View("raised", FALSE, NoGraph, <<>>, "none")
    ELSE IF GraphDataMissing(data)
    THEN View("info_no_data", FALSE, NoGraph, <<>>, "none")
    ELSE IF GraphDataHasError(data)
    THEN View("error_shown", FALSE, NoGraph,
              <<"Error generating graph data from AI: ">>
                  \o Format(DictGet(data, KeyError)), "none")
    ELSE LET b == BuildGraph(data)
         IN  IF ~b.ok THEN View("exception_shown", FALSE, b.G, <<>>, "none")
             ELSE IF lib # "ok"
             THEN View("exception_shown", TRUE, b.G, <<>>, TmpFileAfter(lib))
             ELSE View("embedded", TRUE, b.G, <<>>, TmpFileAfter(lib))

\* ================================ features / additional_features / main
\* RenderLineageOutput looking for the sentinel anywhere in the report
MutRenderLineageOutputAnywhere(lineage_text) ==
    IF lineage_text = <<>> THEN "none_yet"
    ELSE IF \E i \in 1..Len(lineage_text) : lineage_text[i] = CrossMark
    THEN "failure"
    ELSE "success"
\* render_lineage_output: which of its three messages it shows
RenderLineageOutput(lineage_text) ==
    IF lineage_text # <<>> /\ ~StartsWith(lineage_text, CrossMark) THEN "success"
    ELSE IF StartsWith(lineage_text, CrossMark) THEN "failure"
    ELSE "none_yet"

\* DownloadsOffered asking for the text report only
MutDownloadsOfferedTextOnly(lineage_data_structured, lineage_text_report) ==
    lineage_text_report # <<>>
\* render_download_section: whether the two download buttons are offered, and
\* the bytes of data_lineage_structured.json
DownloadsOffered(lineage_data_structured, lineage_text_report) ==
    Truthy(lineage_data_structured) /\ lineage_text_report # <<>>
ExportJson(lineage_data_structured) == JsonDumps(lineage_data_structured)

\* features.py lines 26-122: the editor's initial content, an SQL example
placeholder_code == <<NL, "<SQL example>", NL>>
\* HandlerReset leaving the session state as it was
MutHandlerResetKeeps(text, data) == [text |-> text, data |-> data]
\* main.py lines 90-91: the handler empties the session state it was given
HandlerReset(text, data) == [text |-> <<>>, data |-> EmptyDict]
\* InputIsBlank without the strip()
MutInputIsBlankOnlyEmpty(code) == code = <<>>
\* main.py line 88: current_etl_code_input.strip() is empty
InputIsBlank(code) == Strip(code) = <<>>
\* the two prompts embed the editor's content in fixed instructions
TextPrompt(code) ==
    <<"<lineage report instructions>", NL>> \o code \o <<NL, "<report format>">>
StructuredPrompt(code) ==
    <<"<lineage graph instructions>", NL>> \o code \o <<NL, "<json format>">>
\* StructuredHasError as the presence of the key
MutStructuredHasErrorKey(data) == HasKey(data, KeyError)
\* main.py line 254: st.session_state['structured_lineage_data'].get("error")
StructuredHasError(data) == Truthy(DictGet(data, KeyError))
\* main.py lines 255-257: what is appended to the report
GraphIssueNote(error) ==
    <<NL, NL, "---", NL, NL, CrossMark, " **Graph Generation Issue:** ">>
        \o Format(error)
        \o <<NL, NL, "The AI struggled to provide data for the interactive graph. ",
             "Please review the text report and consider simplifying the input for graph generation.">>

\* What a script run shows (main.py lines 264-280 after the handler):
\*   aborted:   an exception left the script
\*   warned:    the st.warning of line 260
\*   section:   the output section is displayed
\*   report:    the message of render_lineage_output ("none": not called)
\*   downloads: the two download buttons are offered; exported: the JSON bytes
Run(event, warned, aborted, section, report, downloads, exported) ==
    [event |-> event, warned |-> warned, aborted |-> aborted,
     section |-> section, report |-> report, downloads |-> downloads,
     exported |-> exported]
NoRun == Run("start", FALSE, FALSE, FALSE, "none", FALSE, <<>>)
Aborted(event) == Run(event, FALSE, TRUE, FALSE, "none", FALSE, <<>>)
\* the output section for the session state (text, data); v is what
\* render_lineage_graph does with data
OutputSection(event, warned, text, data, v) ==
    IF text = <<>> /\ ~Truthy(data)
    THEN Run(event, warned, FALSE, FALSE, "none", FALSE, <<>>)
    ELSE IF v.outcome = "raised"
    THEN Run(event, warned, TRUE, TRUE, RenderLineageOutput(text), FALSE, <<>>)
    ELSE IF DownloadsOffered(data, text)
    THEN Run(event, warned, FALSE, TRUE, RenderLineageOutput(text), TRUE,
             ExportJson(data))
    ELSE Run(event, warned, FALSE, TRUE, RenderLineageOutput(text), FALSE, <<>>)
SectionView(text, data, lib) ==
    IF text = <<>> /\ ~Truthy(data) THEN NoView ELSE RenderLineageGraph(data, lib)
\* the outcomes of the library steps that a script run over (text, data) can
\* meet: both where lines 52-136 are reached, one where they are not
LibOutcomesFor(text, data) ==
    IF /\ text # <<>> \/ Truthy(data)
       /\ IsDict(data)
       /\ ~GraphDataMissing(data)
       /\ ~GraphDataHasError(data)
       /\ BuildGraph(data).ok
    THEN LibOutcomes ELSE {"ok"}

\* features.py lines 164-231: ask_gemini_infer_structured_schema.  c is the
\* outcome of its call of ask_gemini_structured; the result is the value the
\* function returns.
KeyTableName == <<"table_name">>
InferencePrompt(raw_input_text) ==
    <<"<schema inference instructions>", NL>> \o raw_input_text \o <<NL>>
InferenceFailed(exception) ==
    ErrorDict(<<"AI inference failed: ">> \o exception
                  \o <<". Ensure your input is clear.">>)
AskGeminiInferStructuredSchema(c) ==
    LET ai_response == c.value
    IN  IF c.raised THEN InferenceFailed(<<"<exception>">>)
        ELSE IF ~Truthy(ai_response) THEN ai_response
        \* ai_response.get of a value that is not a dict
        ELSE IF ~IsDict(ai_response)
        THEN InferenceFailed(<<"<AttributeError: no attribute 'get'>">>)
        ELSE IF Truthy(DictGet(ai_response, KeyError)) THEN ai_response
        ELSE IF HasKey(ai_response, KeyTableName) THEN JArr(<<ai_response>>)
        ELSE ai_response
\* ================================================================ start-up
\* GEMINI_API_KEY in os.environ and in the .env file: a value, or Unset;
\* NoFile when find_dotenv() finds no .env file
Unset == "<unset>"
NoFile == "<no .env file>"
PlaceholderKey == "YOUR_ACTUAL_GEMINI_API_KEY_HERE"
EnvironKeys == {Unset, "", PlaceholderKey, "key-a", "key-b"}
DotenvKeys == {NoFile} \cup EnvironKeys
\* load_dotenv(dotenv_path): a variable already in os.environ is not overridden
LoadDotenv(environ, dotenv) ==
    IF environ = Unset /\ dotenv \notin {NoFile, Unset} THEN dotenv ELSE environ
\* ai_logic.py line 16
KeyRejected(GOOGLE_API_KEY) ==
    GOOGLE_API_KEY \in {Unset, ""} \/ GOOGLE_API_KEY = PlaceholderKey
\* main.py line 38
api_key_set(key) == key # Unset /\ key # PlaceholderKey
\* Where a script run of main.py is (pc), with os.environ's and the .env
\* file's key and whether ai_logic is in sys.modules (imported):
\*   "imports" lines 2-12, "page_config" 15-30, "load_env" 33-35,
\*   "key_check" 38-46, "session_init" 49-53, "features" 56-283;
\*   ends: "import_error" (the import of ai_logic raised RuntimeError),
\*   "stopped" (st.warning, st.info, st.stop), "rendered"
Startup(environ, dotenv, pc, imported) ==
    [environ |-> environ, dotenv |-> dotenv, pc |-> pc, imported |-> imported]
StartedUp == Startup("key-a", NoFile, "rendered", TRUE)
RunEnded(pc) == pc \in {"import_error", "stopped", "rendered"}

\* The dark-mode state of a session ("dark", "light", "unset" for a key that
\* session state does not hold): dark_mode and prev are
\* st.session_state['dark_mode'] and ['_prev_dark_mode_state'], toggle is the
\* value of the toggle widget in the browser, applied is the theme that the
\* current script run passed to apply_base_styles.
Theme(dark_mode, prev, toggle, applied) ==
    [dark_mode |-> dark_mode, prev |-> prev, toggle |-> toggle, applied |-> applied]
FirstTheme == Theme("unset", "unset", "dark", "unset")
ThemeShown == Theme("dark", "unset", "dark", "dark")
Flipped(mode) == IF mode = "dark" THEN "light" ELSE "dark"
\* main.py lines 23-30
ApplyBaseStyles(th) ==
    LET dark_mode == IF th.dark_mode = "unset" THEN "dark" ELSE th.dark_mode
    IN  [th EXCEPT !.dark_mode = dark_mode, !.applied = dark_mode]
\* main.py lines 59-63: st.toggle returns the widget's value
ReadToggle(th) == [th EXCEPT !.dark_mode = th.toggle]
\* main.py line 66
ThemeChangeDetected(th) ==
    th.dark_mode # (IF th.prev = "unset" THEN th.dark_mode ELSE th.prev)

\* The threads of two sessions inside get_gemini_model: pc is where the
\* thread is, available its available_models, listed and constructed whether
\* it has called genai.list_models and genai.GenerativeModel.
Threads == {1, 2}
Thread(pc, available, listed, constructed) ==
    [pc |-> pc, available |-> available, listed |-> listed,
     constructed |-> constructed]
NoThreads == [t \in Threads |-> Thread("called", <<>>, FALSE, FALSE)]

\* ================================================================== state
VARIABLES
    gemini_model_instance,    \* ai_logic._gemini_model_instance
    provider,                 \* the provider as SpecSelect's call finds it
    calls,                    \* the gateway calls of the last step, in order
    etl_code_input,           \* st.session_state: the editor's content
    lineage_text_output,      \* st.session_state['lineage_text_output']
    structured_lineage_data,  \* st.session_state['structured_lineage_data']
    run,                      \* what the last script run did
    view,                     \* what the last render_lineage_graph did
    startup,                  \* the process environment and where start-up is
    theme,                    \* the session's dark-mode state and the styles applied
    threads                   \* the session threads inside get_gemini_model
vars == <<gemini_model_instance, provider, calls, etl_code_input,
          lineage_text_output, structured_lineage_data, run, view, startup,
          theme, threads>>

\* ------------------------------------------------------------ input sets
RECURSIVE SeqsUpTo(_, _)
SeqsUpTo(S, n) ==
    IF n = 0 THEN {<<>>}
    ELSE LET shorter == SeqsUpTo(S, n - 1)
         IN  shorter \cup {Append(q, e) : q \in shorter, e \in S}

ModelNames ==
    {"models/gemini-1.5-flash", "models/gemini-pro", "models/gemini-1.5-pro",
     "models/aqa", "models/gemini-2.0-flash"}
ListedModels ==
    [name : ModelNames, methods : {{GenerateContent}, {"embedContent"}}]
\* model lists without a repeated name
Listings(n) ==
    {l \in SeqsUpTo(ListedModels, n) :
        \A i, j \in 1..Len(l) : i # j => l[i].name # l[j].name}
Env(listRaises, listing, ctorRaises) ==
    [listRaises |-> listRaises, listing |-> listing, ctorRaises |-> ctorRaises]
NoEnv == Env(FALSE, <<>>, FALSE)
SelectEnvs ==
    {Env(FALSE, l, c) : l \in Listings(MaxModels), c \in BOOLEAN}
        \cup {Env(TRUE, <<>>, FALSE)}


\* ============================================================ SpecStartup
\* The script runs of main.py from process start, for every key in the
\* environment and in the .env file.
InitStartup ==
    /\ gemini_model_instance = NoHandle
    /\ provider = NoEnv
    /\ calls = <<>>
    /\ etl_code_input = <<>>
    /\ lineage_text_output = <<>>
    /\ structured_lineage_data = EmptyDict
    /\ run = NoRun
    /\ view = NoView
    /\ startup \in {Startup(e, d, "imports", FALSE) :
                        e \in EnvironKeys, d \in DotenvKeys}
    /\ theme = FirstTheme
    /\ threads = NoThreads

StartupStep(environ, pc, imported) ==
    /\ startup' = Startup(environ, startup.dotenv, pc, imported)
    /\ UNCHANGED <<gemini_model_instance, provider, calls, etl_code_input,
                   lineage_text_output, structured_lineage_data, run, view,
                   threads>>

\* main.py lines 2-12; the first import of ai_logic runs ai_logic.py lines 2-24
ImportModules ==
    /\ startup.pc = "imports"
    /\ IF startup.imported
       THEN StartupStep(startup.environ, "page_config", TRUE)
       ELSE \E key \in {LoadDotenv(startup.environ, startup.dotenv)} :
                IF KeyRejected(key)
                THEN StartupStep(key, "import_error", FALSE)
                ELSE StartupStep(key, "page_config", TRUE)
    /\ UNCHANGED theme
\* main.py lines 15-30
PageConfig ==
    /\ startup.pc = "page_config"
    /\ StartupStep(startup.environ, "load_env", startup.imported)
    /\ theme' = ApplyBaseStyles(theme)
\* main.py lines 33-35
LoadEnv ==
    /\ startup.pc = "load_env"
    /\ StartupStep(LoadDotenv(startup.environ, startup.dotenv), "key_check",
                   startup.imported)
    /\ UNCHANGED theme
\* main.py lines 38-46
KeyCheck ==
    /\ startup.pc = "key_check"
    /\ IF ~api_key_set(startup.environ)
       THEN StartupStep(startup.environ, "stopped", startup.imported)
       ELSE StartupStep(startup.environ, "session_init", startup.imported)
    /\ UNCHANGED theme
\* main.py lines 49-53
SessionInit ==
    /\ startup.pc = "session_init"
    /\ StartupStep(startup.environ, "features", startup.imported)
    /\ UNCHANGED theme
\* main.py lines 56-283; the st.rerun() of line 68 starts the next script run
RenderFeatures ==
    /\ startup.pc = "features"
    /\ \E th \in {ReadToggle(theme)} :
          IF ThemeChangeDetected(th)
          THEN /\ theme' = [th EXCEPT !.prev = th.dark_mode]
               /\ StartupStep(startup.environ, "imports", startup.imported)
          ELSE /\ theme' = th
               /\ StartupStep(startup.environ, "rendered", startup.imported)
\* the user flips the dark-mode toggle of the rendered page: the widget has
\* the new value and the script is run again
FlipToggle ==
    /\ startup.pc = "rendered"
    /\ theme' = [theme EXCEPT !.toggle = Flipped(theme.toggle)]
    /\ StartupStep(startup.environ, "imports", startup.imported)
\* the next script run of the same process, for any other reason
Rerun ==
    /\ RunEnded(startup.pc)
    /\ StartupStep(startup.environ, "imports", startup.imported)
    /\ UNCHANGED theme

NextStartup ==
    \/ ImportModules
    \/ PageConfig
    \/ LoadEnv
    \/ KeyCheck
    \/ SessionInit
    \/ RenderFeatures
    \/ FlipToggle
    \/ Rerun
SpecStartup == InitStartup /\ [][NextStartup]_vars

\* ============================================================= SpecSelect
\* get_gemini_model called directly, against every provider of SelectEnvs.
InitSelect ==
    /\ gemini_model_instance = NoHandle
    /\ provider \in SelectEnvs
    /\ calls = <<>>
    /\ etl_code_input = <<>>
    /\ lineage_text_output = <<>>
    /\ structured_lineage_data = EmptyDict
    /\ run = NoRun
    /\ view = NoView
    /\ startup = StartedUp
    /\ theme = ThemeShown
    /\ threads = NoThreads

CallGetGeminiModel ==
    \E m \in {GetGeminiModel(gemini_model_instance, provider)} :
        /\ gemini_model_instance' = m.inst
        /\ calls' = <<ModelCall(m)>>
        /\ UNCHANGED <<provider, etl_code_input, lineage_text_output,
                       structured_lineage_data, run, view, startup,
                       theme, threads>>

NextSelect == CallGetGeminiModel
SpecSelect == InitSelect /\ [][NextSelect]_vars

\* ============================================================ SpecGateway
\* Any sequence of ask_gemini_text / ask_gemini_structured calls in one process.
Text(c) == JStr(<<c>>)
GatewayEnvs ==
    {Env(FALSE, <<>>, FALSE),
     Env(FALSE, <<[name |-> "models/gemini-1.5-flash", methods |-> {"embedContent"}]>>,
         FALSE),
     Env(FALSE, <<[name |-> "models/gemini-pro", methods |-> {GenerateContent}],
                  [name |-> "models/gemini-1.5-flash", methods |-> {GenerateContent}]>>,
         FALSE),
     Env(FALSE, <<[name |-> "models/aqa", methods |-> {GenerateContent}]>>, FALSE),
     Env(FALSE, <<[name |-> "models/gemini-pro", methods |-> {GenerateContent}]>>,
         TRUE),
     Env(TRUE, <<>>, FALSE)}
\* the provider is consulted only while there is no handle
EnvsFor(inst) == IF inst = NoHandle THEN GatewayEnvs ELSE {NoEnv}

Prompts == {<<>>, <<SP, NL>>, <<SP, "p">>}
\* the response_schema of main.py lines 205-247, abridged
LineageSchema == JObj(<<<<"type">>>>, <<Text("object")>>)
Schemas == {None, EmptyDict, LineageSchema}

NodeA ==
    JObj(<<KeyId, KeyLabel, KeyGroup, KeyTitle>>,
         <<Text("a"), Text("A"), Text("table"), JStr(<<"t", QUOTE, BSLASH>>)>>)
NodeB == JObj(<<KeyId, KeyLabel, KeyGroup>>, <<Text("b"), Text("B"), Text("column")>>)
EdgeAB ==
    JObj(<<KeySource, KeyTarget, KeyLabel, KeyTitle, KeyConfidence>>,
         <<Text("a"), Text("b"), Text("FLOWS_TO"), Text("e"), JNum(5)>>)
EdgeBZ ==
    JObj(<<KeySource, KeyTarget, KeyLabel, KeyConfidence>>,
         <<Text("b"), Text("z"), Text("PRODUCES"), JNum(7)>>)
PayloadGraph ==
    JObj(<<KeyNodes, KeyEdges>>, <<JArr(<<NodeA, NodeB>>), JArr(<<EdgeAB, EdgeBZ>>)>>)
\* the answer the structured prompt asks for when lineage cannot be extracted
PayloadNoLineage ==
    JObj(<<KeyNodes, KeyEdges, KeyError>>,
         <<JArr(<<>>), JArr(<<>>), JStr(<<"Could not extract lineage.">>)>>)
PayloadEmptyError ==
    JObj(<<KeyNodes, KeyEdges, KeyError>>,
         <<JArr(<<NodeB>>), JArr(<<>>), JStr(<<>>)>>)
\* what the model's JSON text can parse to
Payloads ==
    {PayloadGraph, PayloadNoLineage, PayloadEmptyError, EmptyDict,
     JArr(<<>>), JArr(<<JNum(1)>>), None}
MalformedTexts ==
    {<<"S", "o", "r", "r", "y">>,
     SubSeq(JsonDumps(PayloadGraph), 1, Len(JsonDumps(PayloadGraph)) - 1)}

TextGens ==
    {GenText(<<"r">>), GenText(<<CrossMark, "r">>), GenText(<<>>), GenEmpty,
     GenBlocked(TRUE), GenBlocked(FALSE), GenError}
StructuredGens ==
    {GenText(JsonDumps(p)) : p \in Payloads}
        \cup {GenText(t) : t \in MalformedTexts}
        \cup {GenEmpty, GenBlocked(TRUE), GenBlocked(FALSE), GenError}

InitGateway ==
    /\ gemini_model_instance = NoHandle
    /\ provider = NoEnv
    /\ calls = <<>>
    /\ etl_code_input = <<>>
    /\ lineage_text_output = <<>>
    /\ structured_lineage_data = EmptyDict
    /\ run = NoRun
    /\ view = NoView
    /\ startup = StartedUp
    /\ theme = ThemeShown
    /\ threads = NoThreads

CallAskGeminiText ==
    \E prompt \in Prompts, env \in EnvsFor(gemini_model_instance), gen \in TextGens :
        \E c \in {AskGeminiText(gemini_model_instance, prompt, env, gen)} :
            /\ gemini_model_instance' = c.inst
            /\ calls' = <<c>>
            /\ UNCHANGED <<provider, etl_code_input, lineage_text_output,
                           structured_lineage_data, run, view, startup,
                           theme, threads>>

CallAskGeminiStructured ==
    \E prompt \in Prompts, schema \in Schemas,
       env \in EnvsFor(gemini_model_instance), gen \in StructuredGens :
        \E c \in {AskGeminiStructured(gemini_model_instance, prompt, schema,
                                       env, gen)} :
            /\ gemini_model_instance' = c.inst
            /\ calls' = <<c>>
            /\ UNCHANGED <<provider, etl_code_input, lineage_text_output,
                           structured_lineage_data, run, view, startup,
                           theme, threads>>

NextGateway == CallAskGeminiText \/ CallAskGeminiStructured
SpecGateway == InitGateway /\ [][NextGateway]_vars

\* =============================================================== SpecInfer
\* ask_gemini_infer_structured_schema over every answer of InferenceGens;
\* calls holds the call of ask_gemini_structured it makes and, after it,
\* the same record with the value the function returns.
TableSchema == JObj(<<<<"type">>>>, <<Text("array")>>)
TableT == JObj(<<KeyTableName, <<"columns">>>>, <<Text("t"), JArr(<<>>)>>)
TableU ==
    JObj(<<KeyTableName, <<"columns">>>>,
         <<Text("u"), JArr(<<JObj(<<<<"name">>, <<"type">>>>,
                                  <<Text("c"), Text("INT")>>)>>)>>)
InferencePayloads ==
    {JArr(<<TableT>>), JArr(<<TableT, TableU>>), TableT, JArr(<<>>), EmptyDict,
     ErrorDict(<<"Could not infer schema from the provided text.">>)}
InferenceGens ==
    {GenText(JsonDumps(p)) : p \in InferencePayloads}
        \cup {GenText(<<"S", "o", "r", "r", "y">>), GenEmpty, GenBlocked(TRUE),
              GenBlocked(FALSE), GenError}
RawSchemaTexts == {<<>>, <<"CREATE TABLE t ()">>}

CallInferSchema ==
    \E raw_input_text \in RawSchemaTexts, env \in EnvsFor(gemini_model_instance),
       gen \in InferenceGens :
        \E c \in {AskGeminiStructured(gemini_model_instance,
                                       InferencePrompt(raw_input_text),
                                       TableSchema, env, gen)} :
            /\ gemini_model_instance' = c.inst
            /\ calls' = <<c, [c EXCEPT !.fn = "infer_schema", !.raised = FALSE,
                                       !.value = AskGeminiInferStructuredSchema(c)]>>
            /\ UNCHANGED <<provider, etl_code_input, lineage_text_output,
                           structured_lineage_data, run, view, startup,
                           theme, threads>>

NextInfer == CallInferSchema
SpecInfer == InitGateway /\ [][NextInfer]_vars
\* ============================================================= SpecThreads
\* Two sessions of one process, each in its own script thread, call
\* get_gemini_model in each of their gateway calls; the steps of the two
\* threads interleave.  The function holds no lock: a thread can be
\* suspended after the test of line 32, and inside the provider calls of
\* lines 39 and 61.
InitThreads ==
    /\ gemini_model_instance = NoHandle
    /\ provider \in GatewayEnvs
    /\ calls = <<>>
    /\ etl_code_input = <<>>
    /\ lineage_text_output = <<>>
    /\ structured_lineage_data = EmptyDict
    /\ run = NoRun
    /\ view = NoView
    /\ startup = StartedUp
    /\ theme = ThemeShown
    /\ threads = NoThreads

ThreadStep(t, thread, inst) ==
    /\ threads' = [threads EXCEPT ![t] = thread]
    /\ gemini_model_instance' = inst
    /\ UNCHANGED <<provider, calls, etl_code_input, lineage_text_output,
                   structured_lineage_data, run, view, startup, theme>>
\* lines 32-33: the handle is returned if there is one
TestHandle(t) ==
    /\ threads[t].pc = "called"
    /\ ThreadStep(t, [threads[t] EXCEPT
                         !.pc = IF gemini_model_instance # NoHandle
                                THEN "returned" ELSE "list_models"],
                  gemini_model_instance)
\* lines 35-41
ListModels(t) ==
    /\ threads[t].pc = "list_models"
    /\ ThreadStep(t, IF provider.listRaises
                     THEN [threads[t] EXCEPT !.pc = "raised", !.listed = TRUE]
                     ELSE [threads[t] EXCEPT
                              !.pc = "construct", !.listed = TRUE,
                              !.available = AvailableModels(provider.listing)],
                  gemini_model_instance)
\* lines 44-70: the handle is assigned when the constructor returns
ConstructModel(t) ==
    /\ threads[t].pc = "construct"
    /\ \E chosen \in {ChooseModel(threads[t].available)} :
          IF chosen = ""
          THEN ThreadStep(t, [threads[t] EXCEPT !.pc = "raised"],
                          gemini_model_instance)
          ELSE IF provider.ctorRaises
          THEN ThreadStep(t, [threads[t] EXCEPT !.pc = "raised",
                                                !.constructed = TRUE],
                          gemini_model_instance)
          ELSE ThreadStep(t, [threads[t] EXCEPT !.pc = "returned",
                                                !.constructed = TRUE],
                          chosen)

\* the next gateway call of the session calls get_gemini_model again
NextCall(t) ==
    /\ threads[t].pc \in {"returned", "raised"}
    /\ ThreadStep(t, [threads[t] EXCEPT !.pc = "called"], gemini_model_instance)

NextThreads ==
    \E t \in Threads :
        TestHandle(t) \/ ListModels(t) \/ ConstructModel(t) \/ NextCall(t)
SpecThreads == InitThreads /\ [][NextThreads]_vars
\* ============================================================== SpecGraph
\* render_lineage_graph applied to every structured response of GraphPayloads.
NodeEntries ==
    {JObj(<<KeyId, KeyLabel, KeyGroup, KeyTitle>>,
          <<Text("a"), Text("A"), Text("table"), JStr(<<"t", QUOTE>>)>>),
     JObj(<<KeyId>>, <<Text("b")>>),
     \* the id of the first entry again
     JObj(<<KeyId, KeyLabel, KeyGroup>>, <<Text("a"), Text("A2"), Text("column")>>),
     \* no id
     JObj(<<KeyLabel>>, <<Text("L")>>)}
EdgeEntries ==
    {JObj(<<KeySource, KeyTarget, KeyLabel, KeyTitle, KeyConfidence>>,
          <<Text("a"), Text("b"), Text("FLOWS_TO"), Text("e"), JNum(5)>>),
     \* the (source, target) pair of the first entry again
     JObj(<<KeySource, KeyTarget, KeyLabel>>,
          <<Text("a"), Text("b"), Text("IS_PART_OF")>>),
     \* a target that no node entry names, no label, a confidence outside 1..5
     JObj(<<KeySource, KeyTarget, KeyConfidence>>,
          <<Text("b"), Text("z"), JNum(7)>>),
     \* no source
     JObj(<<KeyTarget>>, <<Text("a")>>)}
ErrorValues == {JStr(<<>>), None, JStr(<<"Could not extract lineage.">>)}

\* a dict of the members whose value is given (absent: the key is left out)
Absent == JV("absent", <<>>, 0, <<>>, <<>>)
DictOf(keys, values) ==
    LET given == SelectSeq([i \in 1..Len(keys) |-> i], LAMBDA i : values[i] # Absent)
    IN  JObj([i \in 1..Len(given) |-> keys[given[i]]],
             [i \in 1..Len(given) |-> values[given[i]]])
GraphPayloads ==
    {DictOf(<<KeyNodes, KeyEdges, KeyError>>, <<n, e, err>>) :
        n \in {Absent, None} \cup {JArr(l) : l \in SeqsUpTo(NodeEntries, MaxEntries)},
        e \in {Absent} \cup {JArr(l) : l \in SeqsUpTo(EdgeEntries, MaxEntries)},
        err \in {Absent} \cup ErrorValues}
      \cup {None, JArr(<<>>), JArr(<<JNum(1)>>)}

InitGraph ==
    /\ gemini_model_instance = NoHandle
    /\ provider = NoEnv
    /\ calls = <<>>
    /\ etl_code_input = <<>>
    /\ lineage_text_output = <<>>
    /\ structured_lineage_data \in GraphPayloads
    /\ run = NoRun
    /\ view = NoView
    /\ startup = StartedUp
    /\ theme = ThemeShown
    /\ threads = NoThreads

RenderGraph ==
    /\ view = NoView
    /\ \E lib \in LibOutcomes :
          view' = RenderLineageGraph(structured_lineage_data, lib)
    /\ UNCHANGED <<gemini_model_instance, provider, calls, etl_code_input,
                   lineage_text_output, structured_lineage_data, run, startup,
                   theme, threads>>

NextGraph == RenderGraph
SpecGraph == InitGraph /\ [][NextGraph]_vars

\* =================================================================== Spec
\* The application: script runs caused by editing the code and by clicking
\* "Map Data Lineage".
InputTexts == SeqsUpTo({SP, "s"}, MaxInputLen)
\* the provider the application runs against: one that works, one that fails
AppEnvs ==
    {Env(FALSE, <<[name |-> "models/gemini-pro", methods |-> {GenerateContent}]>>,
         FALSE),
     Env(TRUE, <<>>, FALSE)}
AppEnvsFor(inst) == IF inst = NoHandle THEN AppEnvs ELSE {NoEnv}
\* what generate_content does for the two calls of one click
AppTextGens ==
    {GenText(<<"r">>), GenText(<<CrossMark, "r">>), GenText(<<>>),
     GenBlocked(FALSE), GenError}
AppStructuredGens ==
    {GenText(JsonDumps(p)) :
        p \in {PayloadGraph, PayloadNoLineage, PayloadEmptyError, JArr(<<JNum(1)>>)}}
        \cup {GenText(t) : t \in MalformedTexts}
        \cup {GenBlocked(FALSE), GenError}

Init ==
    /\ gemini_model_instance = NoHandle
    /\ provider = NoEnv
    /\ calls = <<>>
    /\ etl_code_input = placeholder_code
    /\ lineage_text_output = <<>>
    /\ structured_lineage_data = EmptyDict
    /\ run = NoRun
    /\ view = NoView
    /\ startup = StartedUp
    /\ theme = ThemeShown
    /\ threads = NoThreads

\* the editor's content changes; the script reruns without a button pressed
EditInput ==
    \E code \in InputTexts,
       lib \in LibOutcomesFor(lineage_text_output, structured_lineage_data) :
        \E v \in {SectionView(lineage_text_output, structured_lineage_data, lib)} :
            /\ code # etl_code_input
            /\ etl_code_input' = code
            /\ calls' = <<>>
            /\ view' = v
            /\ run' = OutputSection("edit", FALSE, lineage_text_output,
                                    structured_lineage_data, v)
            /\ UNCHANGED <<gemini_model_instance, provider, lineage_text_output,
                           structured_lineage_data, startup,
                           theme, threads>>

\* the session state after the handler and the run it leaves
AfterHandler(event, warned, aborted, inst, cs, text, data, lib) ==
    \E v \in {IF aborted THEN NoView ELSE SectionView(text, data, lib)} :
        /\ gemini_model_instance' = inst
        /\ calls' = cs
        /\ lineage_text_output' = text
        /\ structured_lineage_data' = data
        /\ view' = v
        /\ run' = IF aborted THEN Aborted(event)
                  ELSE OutputSection(event, warned, text, data, v)
        /\ UNCHANGED <<provider, etl_code_input, startup,
                       theme, threads>>

\* main.py lines 87-260 and the output section: a click with blank input
MapClickBlank ==
    /\ InputIsBlank(etl_code_input)
    /\ \E lib \in LibOutcomesFor(lineage_text_output, structured_lineage_data) :
          AfterHandler("map_click", TRUE, FALSE, gemini_model_instance, <<>>,
                       lineage_text_output, structured_lineage_data, lib)

\* a click with code in the editor: both gateway calls, the note, the section
MapClickCode ==
    /\ ~InputIsBlank(etl_code_input)
    /\ \E env1 \in AppEnvsFor(gemini_model_instance), gen1 \in AppTextGens :
          \E c1 \in {AskGeminiText(gemini_model_instance,
                                   TextPrompt(etl_code_input), env1, gen1)},
             reset \in {HandlerReset(lineage_text_output,
                                     structured_lineage_data)} :
              IF c1.raised
              THEN AfterHandler("map_click", FALSE, TRUE, c1.inst, <<c1>>,
                                reset.text, reset.data, "ok")
              ELSE \E env2 \in AppEnvsFor(c1.inst), gen2 \in AppStructuredGens :
                  \E c2 \in {AskGeminiStructured(c1.inst,
                                StructuredPrompt(etl_code_input), LineageSchema,
                                env2, gen2)} :
                      IF c2.raised
                      THEN AfterHandler("map_click", FALSE, TRUE, c2.inst,
                                        <<c1, c2>>, c1.text, reset.data, "ok")
                      ELSE IF ~IsDict(c2.value)
                      THEN AfterHandler("map_click", FALSE, TRUE, c2.inst,
                                        <<c1, c2>>, c1.text, c2.value, "ok")
                      ELSE \E lib \in LibOutcomesFor(c1.text, c2.value) :
                      IF StructuredHasError(c2.value)
                      THEN AfterHandler("map_click", FALSE, FALSE, c2.inst,
                                        <<c1, c2>>,
                                        c1.text \o GraphIssueNote(
                                            DictGet(c2.value, KeyError)),
                                        c2.value, lib)
                      ELSE AfterHandler("map_click", FALSE, FALSE, c2.inst,
                                        <<c1, c2>>, c1.text, c2.value, lib)

\* render_clear_button, pressed where the last run displayed it: the run
\* that handles the click deletes three keys and reruns; the rerun creates
\* structured_lineage_data again (main.py lines 52-53) and displays the output
\* section if there is anything to display.  The editor, whose key is
\* deleted, shows its initial content again or keeps what the browser holds.
ClearClick ==
    /\ run.section
    /\ ~run.aborted
    /\ \E code \in {placeholder_code, etl_code_input},
          lib \in LibOutcomesFor(lineage_text_output, EmptyDict) :
          \E v \in {SectionView(lineage_text_output, EmptyDict, lib)} :
              /\ etl_code_input' = code
              /\ structured_lineage_data' = EmptyDict
              /\ calls' = <<>>
              /\ view' = v
              /\ run' = OutputSection("clear", FALSE, lineage_text_output,
                                      EmptyDict, v)
              /\ UNCHANGED <<gemini_model_instance, provider,
                             lineage_text_output, startup,
                             theme, threads>>

Next == EditInput \/ MapClickBlank \/ MapClickCode \/ ClearClick
Spec == Init /\ [][Next]_vars

\* ------------------------------------------------- helpers of the claims
AllWhitespace(code) == \A i \in 1..Len(code) : code[i] \in Whitespace
Contains(s, sub) ==
    \E i \in 1..(Len(s) - Len(sub) + 1) : SubSeq(s, i, i + Len(sub) - 1) = sub

\* ------------------------------------------------- claims under SpecSelect
SelectCallMade ==
    /\ calls # <<>>
    /\ calls[1].fn = "get_gemini_model"
    /\ calls[1].listed
    /\ ~provider.listRaises
PreferredListed ==
    {i \in 1..Len(preferred_order) :
        \E k \in 1..Len(provider.listing) :
            /\ provider.listing[k].name = preferred_order[i]
            /\ GenerateContent \in provider.listing[k].methods}
CapableListed ==
    {k \in 1..Len(provider.listing) : GenerateContent \in provider.listing[k].methods}

\* C7 (amended): given the provider's list, get_gemini_model chooses the first
\* entry of the preference order that is a listed capable model; if none is,
\* the first listed capable model; initialisation fails exactly when there is
\* no capable model or when constructing the chosen model raises.
C7_ModelSelection ==
    SelectCallMade =>
        /\ calls[1].raised <=> (CapableListed = {} \/ provider.ctorRaises)
        /\ (~calls[1].raised /\ PreferredListed # {}) =>
              \E i \in PreferredListed :
                  /\ \A j \in PreferredListed : i <= j
                  /\ gemini_model_instance = preferred_order[i]
        /\ (~calls[1].raised /\ PreferredListed = {}) =>
              \E k \in CapableListed :
                  /\ \A j \in CapableListed : k <= j
                  /\ gemini_model_instance = provider.listing[k].name
\* C7 witness: the fallback picked the first of two capable models, neither preferred
C7_Witness ==
    /\ SelectCallMade
    /\ PreferredListed = {}
    /\ Cardinality(CapableListed) = 2
    /\ gemini_model_instance = provider.listing[1].name
\* C7 as claimed: initialisation fails only when the list of capable models is empty
C7_FailsOnlyWhenNoCapableModel ==
    (SelectCallMade /\ calls[1].raised) => CapableListed = {}

\* ------------------------------------------------ claims under SpecGateway
\* C8: once _gemini_model_instance is set it never changes, every later call
\* returns that handle, and neither the model list is queried nor a model
\* constructed again.
C8_HandleInitialisedOnce ==
    [][gemini_model_instance # NoHandle =>
          /\ gemini_model_instance' = gemini_model_instance
          /\ \A i \in 1..Len(calls') :
                /\ calls'[i].inst = gemini_model_instance
                /\ ~calls'[i].listed
                /\ ~calls'[i].constructed]_vars
\* C8 witness: a call that found the handle set and went on to generate_content
C8_Witness ==
    /\ calls # <<>>
    /\ calls[1].before # NoHandle
    /\ calls[1].generated
    /\ gemini_model_instance = calls[1].before

\* the failure conditions of a gateway call, from its arguments and the
\* provider's answer
TextCallFailed(c) ==
    \/ c.initFailed
    \/ Strip(c.args.prompt) = <<>>
    \/ c.args.gen.kind # "response"
    \/ ~c.args.gen.hasParts
StructuredCallFailed(c) ==
    \/ TextCallFailed(c)
    \/ ~Truthy(c.args.schema)
    \/ ~JsonLoads(c.args.gen.text).ok

\* C9: ask_gemini_text never throws, and on every failure condition returns a
\* string that starts with the sentinel.
C9_TextFailureIsSentinelString ==
    \A i \in 1..Len(calls) :
        calls[i].fn = "text" =>
            /\ ~calls[i].raised
            /\ TextCallFailed(calls[i]) => StartsWith(calls[i].text, CrossMark)

\* C10: ask_gemini_structured never throws, and on every failure returns an
\* object whose only key is `error`.
C10_StructuredFailureIsErrorObject ==
    \A i \in 1..Len(calls) :
        calls[i].fn = "structured" =>
            /\ ~calls[i].raised
            /\ StructuredCallFailed(calls[i]) =>
                  /\ IsDict(calls[i].value)
                  /\ calls[i].value.keys = <<KeyError>>

\* C11: every value ask_gemini_structured returns is an object; a payload that
\* is valid JSON but not an object is never returned as it is.
C11_StructuredReturnsObject ==
    \A i \in 1..Len(calls) :
        (calls[i].fn = "structured" /\ ~calls[i].raised) => IsDict(calls[i].value)

BlockedCall(c) == c.generated /\ c.args.gen.kind = "blocked"
\* C13: a content-safety block raised by the provider call is caught and
\* reported with the block reason, as a sentinel-prefixed string by
\* ask_gemini_text and as an error object by ask_gemini_structured; nothing
\* escapes as an exception.
C13_BlockReportedWithReason ==
    \A i \in 1..Len(calls) :
        BlockedCall(calls[i]) =>
            /\ ~calls[i].raised
            /\ calls[i].fn = "text" =>
                  /\ StartsWith(calls[i].text, CrossMark)
                  /\ Contains(calls[i].text, <<"<block_reason>">>)
            /\ calls[i].fn = "structured" =>
                  /\ IsDict(calls[i].value)
                  /\ HasKey(calls[i].value, KeyError)
                  /\ Contains(DictGet(calls[i].value, KeyError).s,
                              <<"<block_reason>">>)

NoModelMessage == <<"No suitable Gemini model found">>
NoModelFailure(c) == c.initFailed /\ c.msg = NoModelMessage
\* C18 (amended): where the provider offers no compatible model, every
\* gateway call that finds no handle attempts the initialisation again, and
\* the error get_gemini_model raises is caught by the gateway function and
\* returned as its error value; the handle stays unset.
C18_InitErrorReturnedByEachCall ==
    [][\A i \in 1..Len(calls') :
          NoModelFailure(calls'[i]) =>
              /\ calls'[i].before = NoHandle
              /\ calls'[i].listed
              /\ ~calls'[i].constructed
              /\ ~calls'[i].raised
              /\ gemini_model_instance' = NoHandle
              /\ calls'[i].fn = "text" =>
                    /\ StartsWith(calls'[i].text, CrossMark)
                    /\ Contains(calls'[i].text, NoModelMessage)
              /\ calls'[i].fn = "structured" =>
                    /\ calls'[i].value.keys = <<KeyError>>
                    /\ Contains(calls'[i].value.items[1].s, NoModelMessage)]_vars
\* C18 witness: a structured call that met no compatible model and returned
\* the initialisation error as its error object
C18_Witness ==
    /\ calls # <<>>
    /\ calls[1].fn = "structured"
    /\ NoModelFailure(calls[1])
    /\ ~calls[1].raised
    /\ gemini_model_instance = NoHandle
\* C18 as claimed: the initialisation is attempted and fails a single time,
\* and the call that needs the model surfaces it as an exception
C18_InitFailsOnceAsException ==
    [][/\ (\E i \in 1..Len(calls) : NoModelFailure(calls[i])) =>
              \A j \in 1..Len(calls') : ~NoModelFailure(calls'[j])
       /\ \A j \in 1..Len(calls') : NoModelFailure(calls'[j]) => calls'[j].raised]_vars

\* a call whose arguments one of the input guards refuses
GuardedCall(c) ==
    \/ c.fn = "text" /\ AllWhitespace(c.args.prompt)
    \/ /\ c.fn = "structured"
       /\ AllWhitespace(c.args.prompt) \/ c.args.schema \in {None, EmptyDict}
\* C24: a gateway call with a blank prompt, or a structured call with an
\* empty or missing response_schema, returns its error value without calling
\* generate_content.  The guards come after get_gemini_model: where the
\* initialisation fails, that failure is what the call reports.
C24_InputGuards ==
    \A i \in 1..Len(calls) :
        GuardedCall(calls[i]) =>
            LET c == calls[i]
                msg == IF c.fn = "text" THEN c.text ELSE c.value.items[1].s
            IN  /\ ~c.generated
                /\ ~c.raised
                /\ c.fn = "structured" => c.value.keys = <<KeyError>>
                /\ StartsWith(msg, CrossMark)
                /\ IF c.initFailed
                   THEN /\ Contains(msg, c.msg)
                        /\ ~Contains(msg, <<" Please provide a valid prompt">>)
                        /\ ~Contains(msg, <<" A response_schema is required">>)
                   ELSE IF AllWhitespace(c.args.prompt)
                   THEN msg = <<CrossMark, " Please provide a valid prompt">>
                   ELSE msg = <<CrossMark, " A response_schema is required">>
\* C24 witness: a whitespace-only prompt refused after the model list was
\* queried and a model constructed for it
C24_Witness ==
    /\ calls # <<>>
    /\ calls[1].fn = "text"
    /\ calls[1].args.prompt = <<SP, NL>>
    /\ calls[1].listed
    /\ calls[1].constructed
    /\ ~calls[1].generated
    /\ calls[1].text = <<CrossMark, " Please provide a valid prompt">>
\* a blank prompt for which the failed initialisation is reported
C24_InitFailureFirst ==
    /\ calls # <<>>
    /\ calls[1].fn = "structured"
    /\ calls[1].args.prompt = <<>>
    /\ calls[1].initFailed
    /\ Contains(calls[1].value.items[1].s, <<" AI Service Error (Structured): ">>)
\* -------------------------------------------------- claims under SpecInfer
InferCall ==
    /\ Len(calls) = 2
    /\ calls[2].fn = "infer_schema"
IsTable(v) == IsDict(v) /\ HasKey(v, KeyTableName) /\ ~HasKey(v, KeyError)
IsTableArray(v) ==
    /\ v.k = "arr"
    /\ v.items # <<>>
    /\ \A i \in 1..Len(v.items) : IsTable(v.items[i])
\* C27: ask_gemini_infer_structured_schema returns the array of table
\* objects that ask_gemini_structured returned, a one-element array for a
\* single table object, and an error object only when the response carries
\* an error.
C27_InferReturnsSchema ==
    (InferCall /\ ~calls[1].raised) =>
        /\ IsTableArray(calls[1].value) => calls[2].value = calls[1].value
        /\ IsTable(calls[1].value) => calls[2].value = JArr(<<calls[1].value>>)
        /\ (IsDict(calls[2].value) /\ HasKey(calls[2].value, KeyError)) =>
              (IsDict(calls[1].value) /\ HasKey(calls[1].value, KeyError))
\* ------------------------------------------------ claims under SpecThreads
\* C22: two sessions that call get_gemini_model while the handle is unset
\* cannot both run the initialisation: in no interleaving in which both
\* obtain the handle is the model list queried, or a GenerativeModel
\* constructed, by both threads.
C22_InitialisedByOneThread ==
    (\A t \in Threads : threads[t].pc = "returned") =>
        /\ ~(threads[1].listed /\ threads[2].listed)
        /\ ~(threads[1].constructed /\ threads[2].constructed)
\* -------------------------------------------------- claims under SpecGraph
GraphRendered == view.outcome # "not_called"
NoGraphConstructed ==
    /\ view.outcome \in {"info_no_data", "error_shown"}
    /\ ~view.built
    /\ DOMAIN view.G.nodes = {}
    /\ DOMAIN view.G.edges = {}

\* C2 (amended): for every structured response whose `error` field is non-empty
\* (truthy), whether or not `nodes` is present, render_lineage_graph shows a
\* diagnostic and returns without constructing a graph.
C2_ErrorSkipsGraph ==
    (/\ GraphRendered
     /\ IsDict(structured_lineage_data)
     /\ Truthy(DictGet(structured_lineage_data, KeyError)))
    => NoGraphConstructed
\* C2 witness: the error message is shown for a response that has nodes
C2_Witness ==
    /\ view.outcome = "error_shown"
    /\ IsDict(structured_lineage_data)
    /\ Truthy(DictGet(structured_lineage_data, KeyNodes))
\* C2 as claimed: every response that contains an `error` field, whatever its
\* value, gets a diagnostic and no graph
C2_AnyErrorFieldSkipsGraph ==
    (/\ GraphRendered
     /\ IsDict(structured_lineage_data)
     /\ HasKey(structured_lineage_data, KeyError))
    => NoGraphConstructed

NodeList == Elements(DictGetDefault(structured_lineage_data, KeyNodes, JArr(<<>>)))
EdgeList == Elements(DictGetDefault(structured_lineage_data, KeyEdges, JArr(<<>>)))
NodeIds == {DictGet(NodeList[i], KeyId) : i \in 1..Len(NodeList)}
EdgePairs ==
    {<<DictGet(EdgeList[i], KeySource), DictGet(EdgeList[i], KeyTarget)>> :
        i \in 1..Len(EdgeList)}
EdgeEndpoints == {p[1] : p \in EdgePairs} \cup {p[2] : p \in EdgePairs}

\* C3 (amended): the graph built for an error-free response has exactly one
\* node per distinct id among the node entries and the edge endpoints, and
\* exactly one edge per distinct (source, target) pair; the counts equal
\* len(nodes) and len(edges) when the ids are pairwise distinct, the pairs are
\* pairwise distinct and every endpoint is the id of a node entry.
C3_GraphShape ==
    view.built =>
        /\ DOMAIN view.G.nodes = NodeIds \cup EdgeEndpoints
        /\ DOMAIN view.G.edges = EdgePairs
        /\ (/\ Cardinality(NodeIds) = Len(NodeList)
            /\ Cardinality(EdgePairs) = Len(EdgeList)
            /\ EdgeEndpoints \subseteq NodeIds)
           => /\ Cardinality(DOMAIN view.G.nodes) = Len(NodeList)
              /\ Cardinality(DOMAIN view.G.edges) = Len(EdgeList)
\* C3 witness: two edge entries with one (source, target) pair became one edge
C3_Witness ==
    /\ view.built
    /\ Len(EdgeList) = 2
    /\ Cardinality(DOMAIN view.G.edges) = 1
\* C3 as claimed: node count = len(nodes) and edge count = len(edges), always
C3_OnePerEntry ==
    view.built =>
        /\ Cardinality(DOMAIN view.G.nodes) = Len(NodeList)
        /\ Cardinality(DOMAIN view.G.edges) = Len(EdgeList)

\* C4: every graph edge carries its entry's label, title and confidence_score
\* unchanged, and every graph node its entry's id, label, group and title.
Carries(attrs, entry, key) ==
    HasKey(entry, key) => DictGet(attrs, key) = DictGet(entry, key)
C4_AttributesUnchanged ==
    view.built =>
        /\ \A i \in 1..Len(EdgeList) :
              LET e == EdgeList[i]
                  pair == <<DictGet(e, KeySource), DictGet(e, KeyTarget)>>
              IN  /\ pair \in DOMAIN view.G.edges
                  /\ Carries(view.G.edges[pair], e, KeyLabel)
                  /\ Carries(view.G.edges[pair], e, KeyTitle)
                  /\ Carries(view.G.edges[pair], e, KeyConfidence)
        /\ \A i \in 1..Len(NodeList) :
              LET n == NodeList[i]
              IN  /\ DictGet(n, KeyId) \in DOMAIN view.G.nodes
                  /\ Carries(view.G.nodes[DictGet(n, KeyId)], n, KeyLabel)
                  /\ Carries(view.G.nodes[DictGet(n, KeyId)], n, KeyGroup)
                  /\ Carries(view.G.nodes[DictGet(n, KeyId)], n, KeyTitle)

WellFormedEntries ==
    /\ \A i \in 1..Len(NodeList) :
          IsDict(NodeList[i]) /\ ValidNodeId(DictGet(NodeList[i], KeyId))
    /\ \A i \in 1..Len(EdgeList) :
          /\ IsDict(EdgeList[i])
          /\ ValidNodeId(DictGet(EdgeList[i], KeySource))
          /\ ValidNodeId(DictGet(EdgeList[i], KeyTarget))
Dangling(e) ==
    DictGet(e, KeySource) \notin NodeIds \/ DictGet(e, KeyTarget) \notin NodeIds
FieldOr(entry, key, d) == IF HasKey(entry, key) THEN DictGet(entry, key) ELSE d
\* the last entry of l from index i on that has the same graph key as l[i]
LastWithKey(l, i, Key(_)) ==
    CHOOSE j \in i..Len(l) :
        /\ Key(l[j]) = Key(l[i])
        /\ \A k \in (j + 1)..Len(l) : Key(l[k]) # Key(l[i])
NodeKey(n) == DictGet(n, KeyId)
EdgeKey(e) == <<DictGet(e, KeySource), DictGet(e, KeyTarget)>>
\* C25: in the graph that is built, a node carries the label and group its
\* entry supplies, its id as label and 'unknown' as group where the entry has
\* none, and, where the entry has no title, the tooltip "ID: <id>\nType:
\* <group>"; an edge carries the label its entry supplies, the empty label
\* where it has none, and its label as tooltip where it has no title.  Every
\* tooltip is stored as the JSON encoding of that text.
C25_DefaultsApplied ==
    view.built =>
        /\ \A i \in 1..Len(NodeList) :
              LET n == NodeList[LastWithKey(NodeList, i, NodeKey)]
                  attrs == view.G.nodes[NodeKey(n)]
                  group == FieldOr(n, KeyGroup, JStr(<<"unknown">>))
                  tooltip == JStr(<<"ID: ">> \o Format(NodeKey(n))
                                      \o <<BSLASH, "n", "Type: ">> \o Format(group))
              IN  /\ DictGet(attrs, KeyLabel) = FieldOr(n, KeyLabel, NodeKey(n))
                  /\ DictGet(attrs, KeyGroup) = group
                  /\ DictGet(attrs, KeyTitle) =
                        JStr(JsonDumps(FieldOr(n, KeyTitle, tooltip)))
        /\ \A i \in 1..Len(EdgeList) :
              LET e == EdgeList[LastWithKey(EdgeList, i, EdgeKey)]
                  attrs == view.G.edges[EdgeKey(e)]
                  label == FieldOr(e, KeyLabel, JStr(<<>>))
              IN  /\ DictGet(attrs, KeyLabel) = label
                  /\ DictGet(attrs, KeyTitle) =
                        JStr(JsonDumps(FieldOr(e, KeyTitle, label)))
\* C25 witness: a built graph with a node entry that has an id only and an
\* edge entry that has neither label nor title
C25_Witness ==
    /\ view.built
    /\ \E i \in 1..Len(NodeList) : NodeList[i].keys = <<KeyId>>
    /\ \E i \in 1..Len(EdgeList) :
          /\ ~HasKey(EdgeList[i], KeyLabel)
          /\ ~HasKey(EdgeList[i], KeyTitle)
    /\ \E i \in 1..Len(NodeList) : HasKey(NodeList[i], KeyTitle)
\* an error object as ask_gemini_structured returns it on failure
GatewayErrorObject(data) ==
    /\ IsDict(data)
    /\ data.keys = <<KeyError>>
    /\ Truthy(DictGet(data, KeyError))
\* C28: for an error object with an `error` key and no `nodes` key,
\* render_lineage_graph takes the 'no structured lineage data' branch and
\* does not display the error text; the graph view displays the error text
\* only for an object with a non-null `nodes` and a non-empty `error`.
C28_GatewayErrorNotDisplayed ==
    GraphRendered =>
        /\ (/\ IsDict(structured_lineage_data)
            /\ HasKey(structured_lineage_data, KeyError)
            /\ ~HasKey(structured_lineage_data, KeyNodes)) =>
                /\ view.outcome = "info_no_data"
                /\ view.shownError = <<>>
        /\ (view.outcome = "error_shown" \/ view.shownError # <<>>) <=>
              /\ IsDict(structured_lineage_data)
              /\ DictGet(structured_lineage_data, KeyNodes) # None
              /\ Truthy(DictGet(structured_lineage_data, KeyError))
        /\ view.outcome = "error_shown" =>
              Contains(view.shownError,
                       Format(DictGet(structured_lineage_data, KeyError)))
\* C28 witness: {"error": "Could not extract lineage."} rendered as 'no data'
C28_Witness ==
    /\ GatewayErrorObject(structured_lineage_data)
    /\ view.outcome = "info_no_data"
    /\ view.shownError = <<>>
\* the error text displayed for an object with `nodes` and `error`
C28_ErrorDisplayed ==
    /\ view.outcome = "error_shown"
    /\ HasKey(structured_lineage_data, KeyNodes)
    /\ Contains(view.shownError, <<"Could not extract lineage.">>)
\* C29: render_lineage_graph leaves no temporary file behind, whichever of
\* its steps raises.
C29_NoTemporaryFileLeft ==
    GraphRendered => view.tmp_file # "left"
\* ------------------------------------------------------ claims under Spec

\* C1: a click on 'Map Data Lineage' with empty or whitespace-only input shows
\* the warning, calls neither ask_gemini_text nor ask_gemini_structured (no
\* provider call, the model handle untouched), and leaves lineage_text_output
\* and structured_lineage_data as they were before the click.
C1_BlankClickIsNoOp ==
    [][(run'.event = "map_click" /\ AllWhitespace(etl_code_input)) =>
          /\ run'.warned
          /\ calls' = <<>>
          /\ gemini_model_instance' = gemini_model_instance
          /\ lineage_text_output' = lineage_text_output
          /\ structured_lineage_data' = structured_lineage_data]_vars
\* C1 witness: the warning after a click on whitespace-only input, with the
\* results of an earlier request still in session state
C1_Witness ==
    /\ run.event = "map_click"
    /\ run.warned
    /\ etl_code_input # <<>>
    /\ AllWhitespace(etl_code_input)
    /\ lineage_text_output # <<>>
    /\ structured_lineage_data = PayloadGraph

\* C5: the JSON offered for download parses back to the object held in
\* session state, which is the object ask_gemini_structured returned: same
\* nodes, same edges in the same order, every confidence_score unchanged.
C5_ExportRoundTrip ==
    run.downloads =>
        LET reparsed == JsonLoads(run.exported)
        IN  /\ reparsed.ok
            /\ reparsed.v = structured_lineage_data
            /\ Len(calls) = 2 => structured_lineage_data = calls[2].value
\* C5 witness: the export of a graph whose title holds a quote and a backslash
\* and whose second edge has confidence_score 7, right after the request
C5_Witness ==
    /\ run.downloads
    /\ Len(calls) = 2
    /\ calls[2].value = PayloadGraph
    /\ DictGet(Elements(DictGet(JsonLoads(run.exported).v, KeyEdges))[2],
               KeyConfidence) = JNum(7)

\* C6: after a request with non-blank input whose structured result carries
\* an error (a non-empty `error`), lineage_text_output is the text
\* ask_gemini_text returned followed by a 'Graph Generation Issue' note that
\* contains the error message, and no graph is rendered; when the structured
\* result carries no error, lineage_text_output is exactly the returned text.
C6_ErrorAppendsNote ==
    (Len(calls) = 2 /\ ~calls[2].raised) =>
        LET text == calls[1].text
            data == calls[2].value
            note == SubSeq(lineage_text_output, Len(text) + 1,
                           Len(lineage_text_output))
        IN  IF IsDict(data) /\ Truthy(DictGet(data, KeyError))
            THEN /\ Take(lineage_text_output, Len(text)) = text
                 /\ Contains(note, <<" **Graph Generation Issue:** ">>)
                 /\ Contains(note, Format(DictGet(data, KeyError)))
                 /\ NoGraphConstructed
            ELSE lineage_text_output = text
\* C6 witness: the answer of the example scenario, the note after the report
C6_Witness ==
    /\ Len(calls) = 2
    /\ calls[1].text = <<"r">>
    /\ calls[2].value = PayloadNoLineage
    /\ Len(lineage_text_output) > 1
    /\ view.outcome = "error_shown"

MalformedPayloadCall(c) ==
    /\ c.fn = "structured"
    /\ c.generated
    /\ c.args.gen.kind = "response"
    /\ c.args.gen.hasParts
    /\ ~JsonLoads(c.args.gen.text).ok
\* C12: when the model's payload is not valid JSON, ask_gemini_structured
\* returns an error object whose message holds the parse error and the first
\* 200 characters of the payload and no more of it, and that error object,
\* not the payload, is what session state holds.
C12_MalformedJsonReported ==
    (Len(calls) = 2 /\ MalformedPayloadCall(calls[2])) =>
        LET raw == calls[2].args.gen.text
            n == IF Len(raw) < RawExcerptLen THEN Len(raw) ELSE RawExcerptLen
            v == calls[2].value
        IN  /\ ~calls[2].raised
            /\ IsDict(v)
            /\ v.keys = <<KeyError>>
            /\ v.items[1].k = "str"
            /\ StartsWith(v.items[1].s, CrossMark)
            /\ Contains(v.items[1].s, <<"<JSONDecodeError>">>)
            /\ Contains(v.items[1].s, SubSeq(raw, 1, n) \o <<"...">>)
            /\ Len(raw) > n => ~Contains(v.items[1].s, SubSeq(raw, 1, n + 1))
            /\ structured_lineage_data = v
\* C12 witness: a payload longer than 200 characters that does not parse
C12_Witness ==
    /\ Len(calls) = 2
    /\ MalformedPayloadCall(calls[2])
    /\ Len(calls[2].args.gen.text) > RawExcerptLen
    /\ HasKey(structured_lineage_data, KeyError)

\* C15: after 'Clear All Inputs & Results' the last report and the last graph
\* are both discarded and the output section is no longer displayed.
C15_ClearDiscardsResults ==
    run.event = "clear" =>
        /\ lineage_text_output = <<>>
        /\ ~Truthy(structured_lineage_data)
        /\ ~run.section

MapRequest == run.event = "map_click" /\ ~run.warned
\* C16: after a map request with non-blank input, lineage_text_output and
\* structured_lineage_data are determined by the results of this request's
\* calls alone (empty where a call did not return), whatever they held before.
C16_RequestOverwritesState ==
    MapRequest =>
        /\ Len(calls) \in {1, 2}
        /\ structured_lineage_data =
              IF Len(calls) = 2 /\ ~calls[2].raised THEN calls[2].value
              ELSE EmptyDict
        /\ lineage_text_output =
              IF Len(calls) = 1 THEN <<>>
              ELSE IF /\ ~calls[2].raised
                      /\ IsDict(calls[2].value)
                      /\ Truthy(DictGet(calls[2].value, KeyError))
              THEN calls[1].text
                       \o GraphIssueNote(DictGet(calls[2].value, KeyError))
              ELSE calls[1].text
\* C16 witness: a later request of the process whose structured call did not
\* return: the report is this request's, the graph data is empty
C16_Witness ==
    /\ MapRequest
    /\ Len(calls) = 2
    /\ calls[1].before # NoHandle
    /\ calls[2].raised
    /\ lineage_text_output = <<"r">>
    /\ structured_lineage_data = EmptyDict

\* C17: a map request with non-blank input makes exactly two gateway calls,
\* ask_gemini_text and then ask_gemini_structured, the second also when the
\* first returned an error, and neither is retried.
C17_TwoCallsInOrder ==
    MapRequest =>
        /\ Len(calls) = 2
        /\ calls[1].fn = "text"
        /\ calls[2].fn = "structured"

\* C19: no map request ends in an uncaught exception, whatever the two calls
\* return: the handler and the display of report, graph and downloads complete.
C19_NoUncaughtException ==
    run.event = "map_click" => ~run.aborted

\* the download section is reached by the script run
DownloadSectionRendered == run.section /\ ~run.aborted
C21_InfoCase ==
    /\ DownloadSectionRendered
    /\ ~run.downloads
    /\ lineage_text_output = <<>>
    /\ Truthy(structured_lineage_data)
\* C23: render_lineage_output classifies the stored report by its prefix
\* alone: success exactly for a non-empty report that does not start with the
\* sentinel, failure exactly for one that does, the 'none yet' message for an
\* empty report.  A report whose text call succeeded stays a success when the
\* structured call returned an error (the note comes after the text), and a
\* model answer that itself starts with the sentinel is shown as a failure.
C23_ReportClassifiedByPrefix ==
    /\ run.section =>
          /\ run.report = "success" <=>
                (/\ lineage_text_output # <<>>
                 /\ ~StartsWith(lineage_text_output, CrossMark))
          /\ run.report = "failure" <=> StartsWith(lineage_text_output, CrossMark)
          /\ run.report = "none_yet" <=> lineage_text_output = <<>>
    /\ (MapRequest /\ run.section /\ Len(calls) = 2) =>
          /\ (/\ calls[1].text # <<>>
              /\ ~StartsWith(calls[1].text, CrossMark)) => run.report = "success"
          /\ (/\ calls[1].generated
              /\ calls[1].args.gen.kind = "response"
              /\ StartsWith(calls[1].text, CrossMark)) => run.report = "failure"
\* C23 witness: the text call succeeded, the structured call returned an
\* error, and the report with the note appended is shown as a success
C23_Witness ==
    /\ MapRequest
    /\ run.section
    /\ Len(calls) = 2
    /\ calls[1].text = <<"r">>
    /\ IsDict(calls[2].value)
    /\ Truthy(DictGet(calls[2].value, KeyError))
    /\ Contains(lineage_text_output, <<CrossMark>>)
    /\ run.report = "success"
\* a model answer that starts with the sentinel, shown as a failure
C23_AnswerWithSentinel ==
    /\ MapRequest
    /\ run.section
    /\ calls[1].generated
    /\ calls[1].args.gen.kind = "response"
    /\ calls[1].text = <<CrossMark, "r">>
    /\ run.report = "failure"
\* ------------------------------------------------ claims under SpecStartup
KeyMissingOrPlaceholder ==
    LoadDotenv(startup.environ, startup.dotenv) \in {Unset, PlaceholderKey}
\* C14: when GEMINI_API_KEY is missing or is the placeholder, start-up reaches
\* the warning-and-stop step; no other start-up step fails before it.
C14_WarningBeforeAnyFailure ==
    KeyMissingOrPlaceholder => startup.pc # "import_error"

\* C26: after the user flips the dark-mode toggle the change is detected, the
\* script is rerun and the styles are applied with the new theme: the run in
\* which the page comes to rest has passed the toggle's value to
\* apply_base_styles.
C26_ThemeFollowsToggle ==
    startup.pc = "rendered" => theme.applied = theme.toggle
\* line 66 never finds a change: '_prev_dark_mode_state' is assigned only at
\* line 67, and while it is unset line 66 compares dark_mode with itself
ThemeChangeNeverDetected == theme.prev = "unset"

====
